---- MODULE Spec2Model ----
(***************************************************************************)
(* halfpipe/interface/fslnumpy/miscmaths.py: the adaptive_precision        *)
(* decorator and the two conversions it wraps, t2z_convert and             *)
(* f2z_convert.  A call of a wrapped conversion is a process that walks    *)
(* through wrapper(); the mpmath working precision (mp.dps) that           *)
(* workdps() sets and restores is one variable shared by all calls.        *)
(***************************************************************************)
EXTENDS Integers, Sequences, FiniteSets, TLC

VARIABLES
    func,      \* per call: which wrapped conversion is called
    args,      \* per call: the argument tuple (args)
    pc,        \* per call: position inside wrapper()
    dps,       \* per call: the local dps
    zprev,     \* per call: the local zprev (None before the first iteration)
    z,         \* per call: the local z
    origp,     \* per call: precision saved by workdps().__enter__
    result,    \* per call: the returned float (None while running or raised)
    ctx_dps,   \* mpmath's process-wide working precision mp.dps
    log,       \* records emitted through logger.warning
    how,       \* per call: the statement through which the call ended
    evals,     \* per call: number of times func(args) was invoked
    evalDps,   \* per call: mp.dps in force during the latest invocation
    reqDps,    \* per call: dps the call passed to workdps for that invocation
    enters,    \* per call: number of workdps().__enter__
    exits,     \* per call: number of workdps().__exit__
    lastKind,  \* per call: what the latest invocation did (value or error kind)
    verrPrev,  \* per call: the invocation before the latest raised ValueError
    dps0       \* mp.dps before any call started

vars == <<func, args, pc, dps, zprev, z, origp, result, ctx_dps, log, how,
          evals, evalDps, reqDps, enters, exits, lastKind, verrPrev, dps0>>

(***************************************************************************)
(* Python floats.  Finite doubles are integers counted in a fixed unit.    *)
(***************************************************************************)
NaN == [cls |-> "nan", v |-> 0]
PosInf == [cls |-> "inf", v |-> 1]
NegInf == [cls |-> "inf", v |-> -1]
None == [cls |-> "none", v |-> 0]
Fin(n) == [cls |-> "fin", v |-> n]

\* finite doubles an evaluation can produce: 0.0, and two distinct doubles
\* that agree to within the relative tolerance of math.isclose
FinVals == {0, 1000000000, 1000000001}
Floats == {NaN, PosInf, NegInf} \cup {Fin(n) : n \in FinVals}

\* values a caller can pass as the statistic or a degrees-of-freedom argument
ArgVals == {NaN, PosInf, NegInf, Fin(-1), Fin(0), Fin(1)}

\* mp.dps settings the process can have before a call (mpmath's default is 15)
AmbientDps == {15, 50}
DefaultDps == CHOOSE d \in AmbientDps : \A e \in AmbientDps : d <= e

Calls == {"c1", "c2"}
Funcs == {"t2z_convert", "f2z_convert"}

StartDps == 16
MaxDps == 65536
RelTolInv == 1000000000

Abs(n) == IF n < 0 THEN -n ELSE n

isnan(a) == a.cls = "nan"
isinf(a) == a.cls = "inf"
isfinite(a) == a.cls = "fin"

\* math.isclose(a, b) with its defaults rel_tol=1e-09, abs_tol=0.0
isclose(a, b) ==
    IF isnan(a) \/ isnan(b) THEN FALSE
    ELSE IF a = b THEN TRUE
    ELSE IF isinf(a) \/ isinf(b) THEN FALSE
    ELSE LET diff == Abs(b.v - a.v)
         IN  \/ diff <= Abs(b.v) \div RelTolInv
             \/ diff <= Abs(a.v) \div RelTolInv

\* mpf(x) < mpf("0")
Lt0(a) == (isfinite(a) /\ a.v < 0) \/ a = NegInf

Arity(f) == IF f = "t2z_convert" THEN 2 ELSE 3
ArgTuples(f) == [1..Arity(f) -> ArgVals]

\* any(math.isnan(a) for a in args)
AnyNaN(as) == \E i \in DOMAIN as : isnan(as[i])

\* variant: the infinity check is missing
PreCheckResult_NoInfCheck(as) ==
    IF AnyNaN(as) THEN NaN ELSE None

\* variant: the infinity check comes before the NaN check
PreCheckResult_InfFirst(as) ==
    IF isinf(as[1]) THEN as[1]
    ELSE IF AnyNaN(as) THEN NaN
    ELSE None

\* the two early returns of wrapper(); None when neither applies
PreCheckResult(as) ==
    IF AnyNaN(as) THEN NaN
    ELSE IF isinf(as[1]) THEN as[1]
    ELSE None

\* variant: only the statistic is tested
f2z_guard_StatOnly(as) == Lt0(as[1])

\* f2z_convert: x < 0 or d1 < 0 or d2 < 0
f2z_guard(as) == Lt0(as[1]) \/ Lt0(as[2]) \/ Lt0(as[3])

(***************************************************************************)
(* What float(func(args)) can do at one precision: produce a float, raise *)
(* ValueError (or a subclass), raise ZeroDivisionError, or raise anything  *)
(* else (TypeError for a complex result, mpmath's NoConvergence, ...).     *)
(***************************************************************************)
Value(x) == [kind |-> "value", val |-> x]
Raise(e) == [kind |-> e, val |-> NaN]
AnyOutcome == {Value(x) : x \in Floats}
              \cup {Raise("ValueError"), Raise("ZeroDivisionError"), Raise("Exception")}

t2z_convert(as) == AnyOutcome

\* variant: no guard, the formula is always evaluated
f2z_convert_NoGuard(as) == AnyOutcome

f2z_convert(as) == IF f2z_guard(as) THEN {Value(Fin(0))} ELSE AnyOutcome

Outcomes(f, as) == IF f = "t2z_convert" THEN t2z_convert(as) ELSE f2z_convert(as)

\* variant: ZeroDivisionError is retried like ValueError
Handler_ZeroDivRetry(kind) ==
    CASE kind = "value" -> "assign"
      [] kind = "ValueError" -> "pass"
      [] kind = "ZeroDivisionError" -> "pass"
      [] OTHER -> "propagate"

\* the try statement: what wrapper() does with each kind of outcome
Handler(kind) ==
    CASE kind = "value" -> "assign"
      [] kind = "ValueError" -> "pass"
      [] kind = "ZeroDivisionError" -> "return_nan"
      [] OTHER -> "propagate"

\* variant: the first iteration is accepted without a predecessor
Accept_NoNone(zv, zp) == isfinite(zv) /\ (zp = None \/ isclose(zv, zp))

\* the test that returns from inside the loop
Accept(zv, zp) == zp # None /\ isfinite(zv) /\ isclose(zv, zp)

\* variant: the warning is logged for finite values only
ShouldWarn_Finite(zv) == isfinite(zv)

\* the condition under which the warning is logged after the loop
ShouldWarn(zv) == ~isnan(zv)

\* variant: the precision grows by a fixed step
NextDps_Add(d) == d + StartDps

NextDps(d) == d * 2

LoopCond(d) == d <= MaxDps

----
TypeOK ==
    /\ pc \in [Calls -> {"idle", "start", "while", "try", "exit", "done"}]
    /\ \A c \in Calls : func[c] \in Funcs /\ args[c] \in ArgTuples(func[c])
    /\ \A c \in Calls : result[c] \in Floats \cup {None}

Base ==
    /\ dps = [c \in Calls |-> 0]
    /\ zprev = [c \in Calls |-> None]
    /\ z = [c \in Calls |-> None]
    /\ origp = [c \in Calls |-> 0]
    /\ result = [c \in Calls |-> None]
    /\ log = <<>>
    /\ how = [c \in Calls |-> "running"]
    /\ evals = [c \in Calls |-> 0]
    /\ evalDps = [c \in Calls |-> 0]
    /\ reqDps = [c \in Calls |-> 0]
    /\ enters = [c \in Calls |-> 0]
    /\ exits = [c \in Calls |-> 0]
    /\ lastKind = [c \in Calls |-> "none"]
    /\ verrPrev = [c \in Calls |-> FALSE]
    /\ dps0 = ctx_dps

\* one call, of either conversion, with any arguments
Init ==
    /\ ctx_dps \in AmbientDps
    /\ Base
    /\ pc = [c \in Calls |-> IF c = "c1" THEN "start" ELSE "idle"]
    /\ \E f \in Funcs : \E as \in ArgTuples(f) :
          /\ func = [c \in Calls |-> IF c = "c1" THEN f ELSE "f2z_convert"]
          /\ args = [c \in Calls |-> IF c = "c1" THEN as
                                     ELSE <<Fin(-1), Fin(1), Fin(1)>>]

\* two calls in two threads of one process
InitConc ==
    /\ ctx_dps = DefaultDps
    /\ Base
    /\ pc = [c \in Calls |-> "start"]
    /\ func = [c \in Calls |-> IF c = "c1" THEN "t2z_convert" ELSE "f2z_convert"]
    /\ \E t \in {Fin(1), PosInf, NaN} :
          args = [c \in Calls |-> IF c = "c1" THEN <<t, Fin(1)>>
                                  ELSE <<Fin(-1), Fin(1), Fin(1)>>]

----
\* wrapper(): the NaN and infinity checks and the loop's initialisation
PreCheck(c) ==
    /\ pc[c] = "start"
    /\ LET r == PreCheckResult(args[c]) IN
       IF r # None
       THEN /\ result' = [result EXCEPT ![c] = r]
            /\ how' = [how EXCEPT ![c] = IF isnan(r) THEN "nan" ELSE "inf"]
            /\ pc' = [pc EXCEPT ![c] = "done"]
            /\ UNCHANGED <<dps, zprev>>
       ELSE /\ dps' = [dps EXCEPT ![c] = StartDps]
            /\ zprev' = [zprev EXCEPT ![c] = None]
            /\ pc' = [pc EXCEPT ![c] = "while"]
            /\ UNCHANGED <<result, how>>
    /\ UNCHANGED <<func, args, z, origp, ctx_dps, log, evals, evalDps, reqDps,
                   enters, exits, lastKind, verrPrev, dps0>>

\* while dps <= 2 ** 16: with workdps(dps):   (PrecisionManager.__enter__)
Enter(c) ==
    /\ pc[c] = "while"
    /\ LoopCond(dps[c])
    /\ origp' = [origp EXCEPT ![c] = ctx_dps]
    /\ ctx_dps' = dps[c]
    /\ enters' = [enters EXCEPT ![c] = @ + 1]
    /\ pc' = [pc EXCEPT ![c] = "try"]
    /\ UNCHANGED <<func, args, dps, zprev, z, result, log, how, evals, evalDps,
                   reqDps, exits, lastKind, verrPrev, dps0>>

\* the body of the with block: evaluate, compare, double
Iteration(c) ==
    /\ pc[c] = "try"
    /\ \E o \in Outcomes(func[c], args[c]) :
         LET h == Handler(o.kind)
             zv == IF h = "assign" THEN o.val ELSE PosInf
         IN
         /\ z' = [z EXCEPT ![c] = zv]
         /\ evals' = [evals EXCEPT ![c] = @ + 1]
         /\ evalDps' = [evalDps EXCEPT ![c] = ctx_dps]
         /\ reqDps' = [reqDps EXCEPT ![c] = dps[c]]
         /\ lastKind' = [lastKind EXCEPT ![c] = o.kind]
         /\ verrPrev' = [verrPrev EXCEPT ![c] = (lastKind[c] = "ValueError")]
         /\ IF h = "return_nan"
            THEN /\ result' = [result EXCEPT ![c] = NaN]
                 /\ how' = [how EXCEPT ![c] = "zerodiv"]
                 /\ UNCHANGED <<dps, zprev>>
            ELSE IF h = "propagate"
            THEN /\ how' = [how EXCEPT ![c] = "raised"]
                 /\ UNCHANGED <<result, dps, zprev>>
            ELSE IF Accept(zv, zprev[c])
            THEN /\ result' = [result EXCEPT ![c] = zv]
                 /\ how' = [how EXCEPT ![c] = "converged"]
                 /\ UNCHANGED <<dps, zprev>>
            ELSE /\ dps' = [dps EXCEPT ![c] = NextDps(@)]
                 /\ zprev' = [zprev EXCEPT ![c] = zv]
                 /\ UNCHANGED <<result, how>>
    /\ pc' = [pc EXCEPT ![c] = "exit"]
    /\ UNCHANGED <<func, args, origp, ctx_dps, log, enters, exits, dps0>>

\* leaving the with block, by fall-through, return or exception
\* (PrecisionManager.__exit__ restores the precision saved on entry)
Exit(c) ==
    /\ pc[c] = "exit"
    /\ ctx_dps' = origp[c]
    /\ exits' = [exits EXCEPT ![c] = @ + 1]
    /\ pc' = [pc EXCEPT ![c] = IF how[c] = "running" THEN "while" ELSE "done"]
    /\ UNCHANGED <<func, args, dps, zprev, z, origp, result, log, how, evals,
                   evalDps, reqDps, enters, lastKind, verrPrev, dps0>>

\* after the loop: the warning and the final return
ConvergenceFailure(c) ==
    /\ pc[c] = "while"
    /\ ~LoopCond(dps[c])
    /\ log' = IF ShouldWarn(z[c])
              THEN Append(log, [call |-> c, args |-> args[c]])
              ELSE log
    /\ result' = [result EXCEPT ![c] = z[c]]
    /\ how' = [how EXCEPT ![c] = "exhausted"]
    /\ pc' = [pc EXCEPT ![c] = "done"]
    /\ UNCHANGED <<func, args, dps, zprev, z, origp, ctx_dps, evals, evalDps,
                   reqDps, enters, exits, lastKind, verrPrev, dps0>>

Next ==
    \E c \in Calls :
        \/ PreCheck(c)
        \/ Enter(c)
        \/ Iteration(c)
        \/ Exit(c)
        \/ ConvergenceFailure(c)

Spec == Init /\ [][Next]_vars

SpecConc == InitConc /\ [][Next]_vars

----
(***************************************************************************)
(* Properties                                                              *)
(***************************************************************************)
Done(c) == pc[c] = "done"

\* logger.warning was called for call c, with c's arguments in the message
Warned(c) == \E i \in DOMAIN log : log[i].call = c /\ log[i].args = args[c]

Pow2(n) == IF n <= 0 THEN 1 ELSE 2 ^ n

AllFinite(as) == \A i \in DOMAIN as : isfinite(as[i])

\* C1 as stated: a call whose statistic is +inf or -inf returns that same
\* infinity without evaluating the expression, whatever the degrees of freedom.
C1_AnyDof ==
    \A c \in Calls :
        (Done(c) /\ isinf(args[c][1]))
            => (result[c] = args[c][1] /\ evals[c] = 0)

\* C1 amended: a call whose statistic is +inf or -inf and none of whose
\* arguments is NaN returns that same infinity without evaluating the
\* expression.
C1_InfReturned ==
    \A c \in Calls :
        (Done(c) /\ isinf(args[c][1]) /\ ~AnyNaN(args[c]))
            => (result[c] = args[c][1] /\ evals[c] = 0 /\ enters[c] = 0)

C1_Witness ==
    \E c \in Calls :
        /\ Done(c) /\ func[c] = "f2z_convert"
        /\ args[c] = <<NegInf, Fin(-1), PosInf>>
        /\ result[c] = NegInf

\* C2: a call with a NaN in any argument position returns NaN with no
\* evaluation, no change of the working precision and no warning, also when
\* the statistic is infinite.
C2_NaNReturned ==
    \A c \in Calls :
        (Done(c) /\ AnyNaN(args[c]))
            => /\ result[c] = NaN
               /\ evals[c] = 0
               /\ enters[c] = 0
               /\ ctx_dps = dps0
               /\ ~Warned(c)

C2_Witness ==
    \E c \in Calls :
        /\ Done(c) /\ func[c] = "f2z_convert"
        /\ args[c] = <<PosInf, Fin(1), NaN>>
        /\ result[c] = NaN

\* C3 as stated: f2z_convert returns 0.0 whenever some argument is negative,
\* whatever the other arguments are.
C3_AlwaysZero ==
    \A c \in Calls :
        (Done(c) /\ func[c] = "f2z_convert" /\ f2z_guard(args[c]))
            => result[c] = Fin(0)

\* C3 amended: f2z_convert returns 0.0 whenever some argument is negative,
\* no argument is NaN and the statistic is not infinite.
C3_ZeroSentinel ==
    \A c \in Calls :
        (/\ Done(c) /\ func[c] = "f2z_convert"
         /\ (Lt0(args[c][1]) \/ Lt0(args[c][2]) \/ Lt0(args[c][3]))
         /\ ~AnyNaN(args[c]) /\ ~isinf(args[c][1]))
            => result[c] = Fin(0)

C3_Witness ==
    \E c \in Calls :
        /\ Done(c) /\ func[c] = "f2z_convert"
        /\ args[c] = <<Fin(1), NegInf, PosInf>>
        /\ result[c] = Fin(0)

\* C4: every call that ends, ends by returning a float (finite, NaN or
\* infinite); no exception leaves the call.
C4_NoException ==
    \A c \in Calls : Done(c) => (how[c] # "raised" /\ result[c] \in Floats)

\* C5 as stated: evaluations run at 16 digits, then at twice the previous
\* precision, never above 65536 digits, and there are at most 12 of them.
C5_AtMost12 ==
    \A c \in Calls :
        /\ evals[c] <= 12
        /\ evals[c] > 0 => /\ evalDps[c] = StartDps * Pow2(evals[c] - 1)
                           /\ evalDps[c] <= MaxDps

\* C5 amended: evaluations run at 16 digits, then at twice the previous
\* precision, never above 65536 digits, and there are at most 13 of them.
C5_AtMost13 ==
    \A c \in Calls :
        /\ evals[c] <= 13
        /\ evals[c] > 0 => /\ evalDps[c] = StartDps * Pow2(evals[c] - 1)
                           /\ evalDps[c] <= MaxDps

C5_Witness ==
    \E c \in Calls : Done(c) /\ evals[c] = 13 /\ evalDps[c] = MaxDps

\* C6: concurrent calls do not interfere: every evaluation runs at the
\* precision its own call passed to workdps for that iteration, and when all
\* calls have ended the process-wide precision is what it was before.
C6_NoInterference ==
    /\ \A c \in Calls : evals[c] > 0 => evalDps[c] = reqDps[c]
    /\ (\A c \in Calls : Done(c)) => ctx_dps = dps0

\* C7 as stated: a call that exhausts the loop logs a warning with its
\* arguments and returns the last value, whatever that value is; a call that
\* ends in any other way logs nothing.
C7_AlwaysWarns ==
    \A c \in Calls :
        /\ (Done(c) /\ how[c] = "exhausted") => (Warned(c) /\ result[c] = z[c])
        /\ (Done(c) /\ how[c] \in {"nan", "inf", "zerodiv", "converged"})
              => ~Warned(c)

\* C7 amended: a call that exhausts the loop returns the last value whatever
\* it is, and logs a warning with its arguments exactly when that value is
\* not NaN; a call that ends in any other way logs nothing.
C7_WarnsUnlessNaN ==
    \A c \in Calls :
        /\ (Done(c) /\ how[c] = "exhausted")
              => /\ result[c] = z[c]
                 /\ evals[c] > 0
                 /\ Warned(c) <=> ~isnan(z[c])
        /\ (Done(c) /\ how[c] \in {"nan", "inf", "zerodiv", "converged"})
              => ~Warned(c)

C7_Witness ==
    \E c \in Calls :
        Done(c) /\ how[c] = "exhausted" /\ result[c] = PosInf /\ Warned(c)

C9_ZeroDivAborts ==
    \A c \in Calls :
        lastKind[c] = "ZeroDivisionError"
            => /\ pc[c] \in {"exit", "done"}
               /\ result[c] = NaN
               /\ ~Warned(c)
               /\ Done(c) => (exits[c] = enters[c] /\ ctx_dps = dps0)

C9_Witness ==
    \E c \in Calls :
        /\ Done(c) /\ lastKind[c] = "ZeroDivisionError"
        /\ evals[c] >= 2 /\ isfinite(zprev[c])
        /\ result[c] = NaN

\* C10 as stated: f2z_convert with finite arguments, one of them negative,
\* returns 0.0 without entering the loop: no precision is set and the
\* expression is not evaluated.
C10_Bypass ==
    \A c \in Calls :
        (/\ Done(c) /\ func[c] = "f2z_convert"
         /\ AllFinite(args[c]) /\ f2z_guard(args[c]))
            => (result[c] = Fin(0) /\ evals[c] = 0 /\ enters[c] = 0)

\* C10 amended: f2z_convert with finite arguments, one of them negative,
\* returns 0.0 through the loop: the expression is evaluated exactly twice,
\* at 16 and at 32 digits, the second value is accepted, and nothing is
\* logged.
C10_TwoIterations ==
    \A c \in Calls :
        (/\ Done(c) /\ func[c] = "f2z_convert"
         /\ AllFinite(args[c])
         /\ \E i \in DOMAIN args[c] : args[c][i].v < 0)
            => /\ result[c] = Fin(0)
               /\ how[c] = "converged"
               /\ evals[c] = 2 /\ enters[c] = 2 /\ exits[c] = 2
               /\ evalDps[c] = 2 * StartDps
               /\ ~Warned(c)

C10_Witness ==
    \E c \in Calls :
        /\ Done(c) /\ func[c] = "f2z_convert"
        /\ args[c] = <<Fin(1), Fin(0), Fin(-1)>>
        /\ evals[c] = 2 /\ result[c] = Fin(0)

====
